---- MODULE Spec2Model ----
(***************************************************************************)
(* Model of rollout.go: the Rollout interface, DynamoDBRollout (constructor*)
(* NewDynamoDBRollout, its loadRollout closure, its background goroutine   *)
(* and Get) and ConstantRollout.                                           *)
(*                                                                         *)
(* float64 values are records [nan, val]: val counts hundredths, nan marks *)
(* IEEE NaN (every ordered comparison with it is false).  Number texts are *)
(* sequences of one-character strings.  Time is measured in ticks; the     *)
(* clock keeps a sliding window of MaxTime ticks, so a timestamp older     *)
(* than the window reads as exactly MaxTime old, which is above Unhealthy. *)
(***************************************************************************)
EXTENDS Integers, Sequences, FiniteSets, TLC

\* ------------------------------------------------------------------ bounds
NumReaders == 2
NumCallers == 3
Horizon == 1
MaxTextLen == 3

\* -------------------------------------------------- constructor parameters
\* delay and unhealthy of NewDynamoDBRollout, in ticks
Delay == 1
Unhealthy == 1

MaxTime == Unhealthy + Horizon
Readers == 1..NumReaders
Callers == 1..NumCallers

\* ---------------------------------------------------------------- float64
Scale == 100
Num(n) == [nan |-> FALSE, val |-> n]
NaN == [nan |-> TRUE, val |-> 0]
Zero == Num(0)
One == Num(Scale)
\* a read that overlapped the write: bits of two different values
Torn == [nan |-> FALSE, val |-> -1]

\* Go's < and > on float64: false whenever an operand is NaN
FloatLess(a, b) == ~a.nan /\ ~b.nan /\ a.val < b.val
FloatGreater(a, b) == ~a.nan /\ ~b.nan /\ a.val > b.val
InUnitRange(f) == ~f.nan /\ 0 <= f.val /\ f.val <= Scale

\* ----------------------------------------------------- strconv.ParseFloat
Digits == <<"0", "1", "2", "3", "4", "5", "6", "7", "8", "9">>
IsDigit(c) == \E i \in 1..10 : Digits[i] = c
DigitVal(c) == (CHOOSE i \in 1..10 : Digits[i] = c) - 1
AllDigits(s) == \A i \in 1..Len(s) : IsDigit(s[i])

RECURSIVE DigitsVal(_)
DigitsVal(s) ==
  IF s = <<>> THEN 0 ELSE 10 * DigitsVal(SubSeq(s, 1, Len(s) - 1)) + DigitVal(s[Len(s)])

\* the fraction digits as hundredths (digits after the second are dropped)
FracVal(s) ==
  IF Len(s) = 0 THEN 0
  ELSE IF Len(s) = 1 THEN 10 * DigitVal(s[1])
  ELSE 10 * DigitVal(s[1]) + DigitVal(s[2])

DotPos(s) == IF \E i \in 1..Len(s) : s[i] = "." THEN CHOOSE i \in 1..Len(s) : s[i] = "." ELSE 0

\* unsigned decimal: digits [ "." digits ], at least one digit
ParseUnsigned(s) ==
  LET d == DotPos(s)
      ip == IF d = 0 THEN s ELSE SubSeq(s, 1, d - 1)
      fp == IF d = 0 THEN <<>> ELSE SubSeq(s, d + 1, Len(s))
  IN IF AllDigits(ip) /\ AllDigits(fp) /\ Len(ip) + Len(fp) > 0
     THEN [ok |-> TRUE, f |-> Num(Scale * DigitsVal(ip) + FracVal(fp))]
     ELSE [ok |-> FALSE, f |-> Zero]

Negate(r) == IF r.ok THEN [ok |-> TRUE, f |-> Num(0 - r.f.val)] ELSE r

ParseFloat(s) ==
  IF s = <<"N", "a", "N">> THEN [ok |-> TRUE, f |-> NaN]
  ELSE IF s = <<>> THEN [ok |-> FALSE, f |-> Zero]
  ELSE IF s[1] = "-" THEN Negate(ParseUnsigned(Tail(s)))
  ELSE IF s[1] = "+" THEN ParseUnsigned(Tail(s))
  ELSE ParseUnsigned(s)

\* ------------------------------------------------------- store responses
Texts ==
  { <<"0">>, <<"0", ".", "3", "5">>, <<"1", ".", "5">>, <<"-", "0", ".", "5">>,
    <<"a", "b", "c">>, <<"N", "a", "N">> }

\* GetItem's outcome: err; Item["rollout"] present or not; its N field set
\* or nil; the text N points to
Response(e, p, n, t) == [err |-> e, present |-> p, isNumber |-> n, text |-> t]
Responses ==
  { Response(TRUE, FALSE, FALSE, <<>>),
    Response(FALSE, FALSE, FALSE, <<>>),
    Response(FALSE, TRUE, FALSE, <<>>) }
  \cup { Response(FALSE, TRUE, TRUE, t) : t \in Texts }

ErrKinds == {"nil", "fetch", "missing", "type", "parse", "range"}
Result(p, e) == [percentage |-> p, err |-> e]

\* lines 70-91 with line 88 returning the parsed value beside the error
loadRolloutKeepsRejectedValue(resp) ==
  IF resp.err THEN Result(Zero, "fetch")
  ELSE IF ~resp.present THEN Result(Zero, "missing")
  ELSE IF ~resp.isNumber THEN Result(Zero, "type")
  ELSE LET r == ParseFloat(resp.text)
       IN IF ~r.ok THEN Result(Zero, "parse")
          ELSE IF FloatLess(r.f, Zero) \/ FloatGreater(r.f, One) THEN Result(r.f, "range")
          ELSE Result(r.f, "nil")

\* lines 70-91 with the bounds themselves rejected (<= 0, >= 1, at line 87)
loadRolloutStrictBounds(resp) ==
  IF resp.err THEN Result(Zero, "fetch")
  ELSE IF ~resp.present THEN Result(Zero, "missing")
  ELSE IF ~resp.isNumber THEN Result(Zero, "type")
  ELSE LET r == ParseFloat(resp.text)
       IN IF ~r.ok THEN Result(Zero, "parse")
          ELSE IF ~FloatGreater(r.f, Zero) \/ ~FloatLess(r.f, One) THEN Result(Zero, "range")
          ELSE Result(r.f, "nil")

loadRollout(resp) ==
  IF resp.err THEN Result(Zero, "fetch")
  ELSE IF ~resp.present THEN Result(Zero, "missing")
  ELSE IF ~resp.isNumber THEN Result(Zero, "type")
  ELSE LET r == ParseFloat(resp.text)
       IN IF ~r.ok THEN Result(Zero, "parse")
          ELSE IF FloatLess(r.f, Zero) \/ FloatGreater(r.f, One) THEN Result(Zero, "range")
          ELSE Result(r.f, "nil")

\* ------------------------------------------------------------------ state
VARIABLES
  db,            \* the db argument: "nil" or "handle"
  ctorpc,        \* NewDynamoDBRollout's position
  result,        \* what NewDynamoDBRollout returned: "none", "ok", "error"
  inst,          \* the DynamoDBRollout struct exists
  rollout,       \* dynamodbRollout.rollout, the published value
  readerCount,   \* mutex: goroutines holding the read lock
  writer,        \* mutex: "free", "pending" (Lock waits for readers), "held"
  bgpc,          \* the background goroutine's position
  lastHealthy,   \* goroutine local
  percentage,    \* goroutine local
  err,           \* goroutine local: "nil" or the kind of failure
  exceeded,      \* this iteration took the branch of line 99
  sleepLeft,     \* ticks left of time.Sleep(delay)
  now,           \* the clock
  pc,            \* each reader's position in Get
  ret,           \* each reader's last return value of Get
  everFetched,   \* history: some GetItem was issued
  everRecorded,  \* history: monitor.RecordRolloutUpdate was invoked
  everPublished, \* history: line 107 ran
  degraded,      \* history: an unhealthy iteration published, no success since
  lastGood,      \* history: the value last published by a successful iteration
  pubExceeded,   \* history: exceeded, of the iteration that published last
  prevRollout,   \* history: the value the last publish overwrote
  wasDegraded,   \* history: degraded, before the last publish
  records,       \* history: RecordRolloutUpdate calls of the current iteration
  recordedErr,   \* history: the argument of the last RecordRolloutUpdate call
  pubOk,         \* history: the iteration that published last had err = nil
  value,         \* constantRollout.value
  cpc,           \* each caller's position in ConstantRollout.Get
  cret,          \* each caller's last return value of ConstantRollout.Get
  loadIn,        \* a response handed to loadRollout on its own
  loaded,        \* loadRollout has run on loadIn
  loadOut        \* what loadRollout returned for loadIn

ctorVars == <<db, ctorpc, result, inst>>
mutexVars == <<readerCount, writer>>
bgVars == <<bgpc, lastHealthy, percentage, err, exceeded, sleepLeft>>
readerVars == <<pc, ret>>
histVars == <<everFetched, everRecorded, everPublished, degraded, lastGood, pubExceeded,
              prevRollout, wasDegraded, records, recordedErr, pubOk>>
constVars == <<value, cpc, cret>>
loadVars == <<loadIn, loaded, loadOut>>
vars == <<ctorVars, rollout, mutexVars, bgVars, now, readerVars, histVars, constVars,
          loadVars>>

Since(t) == now - t

InitDynamo ==
  /\ ctorpc = "call" /\ result = "none" /\ inst = FALSE
  /\ rollout = Zero
  /\ readerCount = 0 /\ writer = "free"
  /\ bgpc = "none" /\ lastHealthy = 0 /\ percentage = Zero /\ err = "nil"
  /\ exceeded = FALSE /\ sleepLeft = 0
  /\ now = 0
  /\ pc = [r \in Readers |-> "idle"]
  /\ ret = [r \in Readers |-> Zero]
  /\ everFetched = FALSE /\ everRecorded = FALSE /\ everPublished = FALSE
  /\ degraded = FALSE /\ lastGood = Zero /\ pubExceeded = FALSE /\ prevRollout = Zero
  /\ wasDegraded = FALSE
  /\ records = 0 /\ recordedErr = "nil" /\ pubOk = FALSE

InitIdleLoad ==
  /\ loadIn = Response(TRUE, FALSE, FALSE, <<>>)
  /\ loaded = FALSE
  /\ loadOut = Result(Zero, "nil")

Init ==
  /\ db \in {"nil", "handle"}
  /\ InitDynamo
  /\ value = Zero
  /\ cpc = [c \in Callers |-> "none"]
  /\ cret = [c \in Callers |-> Zero]
  /\ InitIdleLoad

\* ---------------------------------------------------- NewDynamoDBRollout
\* lines 51-59 without the nil check of line 51
ConstructUnchecked ==
  /\ ctorpc = "call"
  /\ ctorpc' = "go" /\ inst' = TRUE /\ rollout' = Zero
  /\ UNCHANGED <<db, result, mutexVars, bgVars, now, readerVars, histVars, constVars, loadVars>>

\* lines 51-59 with the rollout field starting at 1
ConstructStartsAtOne ==
  /\ ctorpc = "call"
  /\ IF db = "nil"
     THEN /\ ctorpc' = "returned" /\ result' = "error"
          /\ UNCHANGED <<inst, rollout>>
     ELSE /\ ctorpc' = "go" /\ inst' = TRUE /\ rollout' = One
          /\ UNCHANGED result
  /\ UNCHANGED <<db, mutexVars, bgVars, now, readerVars, histVars, constVars, loadVars>>

\* lines 51-59: the nil check, then the struct with rollout 0
Construct ==
  /\ ctorpc = "call"
  /\ IF db = "nil"
     THEN /\ ctorpc' = "returned" /\ result' = "error"
          /\ UNCHANGED <<inst, rollout>>
     ELSE /\ ctorpc' = "go" /\ inst' = TRUE /\ rollout' = Zero
          /\ UNCHANGED result
  /\ UNCHANGED <<db, mutexVars, bgVars, now, readerVars, histVars, constVars, loadVars>>

\* line 92: go func()
Go ==
  /\ ctorpc = "go"
  /\ ctorpc' = "return"
  /\ bgpc' = "start"
  /\ UNCHANGED <<db, result, inst, rollout, mutexVars, lastHealthy, percentage, err,
                 exceeded, sleepLeft, now, readerVars, histVars, constVars, loadVars>>

\* line 112
Return ==
  /\ ctorpc = "return"
  /\ ctorpc' = "returned" /\ result' = "ok"
  /\ UNCHANGED <<db, inst, rollout, mutexVars, bgVars, now, readerVars, histVars, constVars, loadVars>>

\* ------------------------------------------------ the background goroutine
\* line 93
BgStart ==
  /\ bgpc = "start"
  /\ lastHealthy' = now
  /\ bgpc' = "fetch"
  /\ UNCHANGED <<ctorVars, rollout, mutexVars, percentage, err, exceeded, sleepLeft,
                 now, readerVars, histVars, constVars, loadVars>>

\* line 95 into line 71: the request leaves
IssueGetItem ==
  /\ bgpc = "fetch"
  /\ bgpc' = "waiting"
  /\ everFetched' = TRUE
  /\ records' = 0 /\ recordedErr' = "nil"
  /\ UNCHANGED <<ctorVars, rollout, mutexVars, lastHealthy, percentage, err, exceeded,
                 sleepLeft, now, readerVars, everRecorded, everPublished, degraded,
                 lastGood, pubExceeded, prevRollout, wasDegraded, pubOk, constVars, loadVars>>

\* lines 71-90 and the assignment of line 95: the response arrives
GetItemReturn ==
  /\ bgpc = "waiting"
  /\ \E resp \in Responses :
       /\ percentage' = loadRollout(resp).percentage
       /\ err' = loadRollout(resp).err
  /\ exceeded' = FALSE
  /\ bgpc' = "record"
  /\ UNCHANGED <<ctorVars, rollout, mutexVars, lastHealthy, sleepLeft, now, readerVars,
                 histVars, constVars, loadVars>>

\* line 96 moved into the error branch of line 97
RecordRolloutUpdateOnErrorOnly ==
  /\ bgpc = "record"
  /\ IF err # "nil"
     THEN everRecorded' = TRUE /\ records' = records + 1 /\ recordedErr' = err
     ELSE UNCHANGED <<everRecorded, records, recordedErr>>
  /\ bgpc' = "check"
  /\ UNCHANGED <<ctorVars, rollout, mutexVars, lastHealthy, percentage, err, exceeded,
                 sleepLeft, now, readerVars, everFetched, everPublished, degraded,
                 lastGood, pubExceeded, prevRollout, wasDegraded, pubOk, constVars, loadVars>>

\* line 96
RecordRolloutUpdate ==
  /\ bgpc = "record"
  /\ everRecorded' = TRUE
  /\ records' = records + 1
  /\ recordedErr' = err
  /\ bgpc' = "check"
  /\ UNCHANGED <<ctorVars, rollout, mutexVars, lastHealthy, percentage, err, exceeded,
                 sleepLeft, now, readerVars, everFetched, everPublished, degraded,
                 lastGood, pubExceeded, prevRollout, wasDegraded, pubOk, constVars, loadVars>>

\* line 101 assigning 1
DroppedValueOne == One

\* line 101
DroppedValue == Zero

\* lines 97-105 without the assignment of line 104
HandleResultKeepsTimestamp ==
  /\ bgpc = "check"
  /\ IF err # "nil"
     THEN IF Since(lastHealthy) > Unhealthy
          THEN percentage' = DroppedValue /\ exceeded' = TRUE /\ UNCHANGED lastHealthy
          ELSE UNCHANGED <<percentage, exceeded, lastHealthy>>
     ELSE UNCHANGED <<lastHealthy, percentage, exceeded>>
  /\ bgpc' = "lock"
  /\ UNCHANGED <<ctorVars, rollout, mutexVars, err, sleepLeft, now, readerVars,
                 histVars, constVars, loadVars>>

\* lines 97-105 with lastHealthy = time.Now() added after line 101
HandleResultResetsOnDrop ==
  /\ bgpc = "check"
  /\ IF err # "nil"
     THEN IF Since(lastHealthy) > Unhealthy
          THEN percentage' = DroppedValue /\ exceeded' = TRUE /\ lastHealthy' = now
          ELSE UNCHANGED <<percentage, exceeded, lastHealthy>>
     ELSE lastHealthy' = now /\ UNCHANGED <<percentage, exceeded>>
  /\ bgpc' = "lock"
  /\ UNCHANGED <<ctorVars, rollout, mutexVars, err, sleepLeft, now, readerVars,
                 histVars, constVars, loadVars>>

\* lines 97-105 with a return after line 101: the goroutine ends
HandleResultGivesUp ==
  /\ bgpc = "check"
  /\ IF err # "nil"
     THEN IF Since(lastHealthy) > Unhealthy
          THEN /\ percentage' = DroppedValue /\ exceeded' = TRUE /\ UNCHANGED lastHealthy
               /\ bgpc' = "none"
          ELSE UNCHANGED <<percentage, exceeded, lastHealthy>> /\ bgpc' = "lock"
     ELSE lastHealthy' = now /\ UNCHANGED <<percentage, exceeded>> /\ bgpc' = "lock"
  /\ UNCHANGED <<ctorVars, rollout, mutexVars, err, sleepLeft, now, readerVars,
                 histVars, constVars, loadVars>>

\* lines 97-105 with >= at line 99
HandleResultAtThreshold ==
  /\ bgpc = "check"
  /\ IF err # "nil"
     THEN IF Since(lastHealthy) >= Unhealthy
          THEN percentage' = DroppedValue /\ exceeded' = TRUE /\ UNCHANGED lastHealthy
          ELSE UNCHANGED <<percentage, exceeded, lastHealthy>>
     ELSE lastHealthy' = now /\ UNCHANGED <<percentage, exceeded>>
  /\ bgpc' = "lock"
  /\ UNCHANGED <<ctorVars, rollout, mutexVars, err, sleepLeft, now, readerVars,
                 histVars, constVars, loadVars>>

\* lines 97-105
HandleResult ==
  /\ bgpc = "check"
  /\ IF err # "nil"
     THEN IF Since(lastHealthy) > Unhealthy
          THEN percentage' = DroppedValue /\ exceeded' = TRUE /\ UNCHANGED lastHealthy
          ELSE UNCHANGED <<percentage, exceeded, lastHealthy>>
     ELSE lastHealthy' = now /\ UNCHANGED <<percentage, exceeded>>
  /\ bgpc' = "lock"
  /\ UNCHANGED <<ctorVars, rollout, mutexVars, err, sleepLeft, now, readerVars,
                 histVars, constVars, loadVars>>

\* line 106 with a lock that does not wait for the readers inside Get
LockIgnoresReaders ==
  /\ bgpc = "lock"
  /\ writer' = "held" /\ bgpc' = "write"
  /\ UNCHANGED <<ctorVars, rollout, readerCount, lastHealthy, percentage, err, exceeded,
                 sleepLeft, now, readerVars, histVars, constVars, loadVars>>

\* line 106: Lock announces the writer, which stops new readers, and takes
\* the lock at once when no reader holds it
Lock ==
  /\ bgpc = "lock"
  /\ IF readerCount = 0
     THEN writer' = "held" /\ bgpc' = "write"
     ELSE writer' = "pending" /\ bgpc' = "lockwait"
  /\ UNCHANGED <<ctorVars, rollout, readerCount, lastHealthy, percentage, err, exceeded,
                 sleepLeft, now, readerVars, histVars, constVars, loadVars>>

\* line 106: the last reader has left
LockAcquire ==
  /\ bgpc = "lockwait"
  /\ readerCount = 0
  /\ writer' = "held"
  /\ bgpc' = "write"
  /\ UNCHANGED <<ctorVars, rollout, readerCount, lastHealthy, percentage, err, exceeded,
                 sleepLeft, now, readerVars, histVars, constVars, loadVars>>

\* line 107
Publish ==
  /\ bgpc = "write"
  /\ rollout' = percentage
  /\ bgpc' = "unlock"
  /\ everPublished' = TRUE
  /\ pubExceeded' = exceeded
  /\ degraded' = IF err = "nil" THEN FALSE ELSE IF exceeded THEN TRUE ELSE degraded
  /\ lastGood' = IF err = "nil" THEN percentage ELSE lastGood
  /\ prevRollout' = rollout
  /\ wasDegraded' = degraded
  /\ pubOk' = (err = "nil")
  /\ UNCHANGED <<ctorVars, mutexVars, lastHealthy, percentage, err, exceeded, sleepLeft,
                 now, readerVars, everFetched, everRecorded, records, recordedErr,
                 constVars, loadVars>>

\* line 108 left out: the goroutine goes to sleep with the lock held
UnlockForgotten ==
  /\ bgpc = "unlock"
  /\ bgpc' = "sleep"
  /\ UNCHANGED <<ctorVars, rollout, mutexVars, lastHealthy, percentage, err, exceeded,
                 sleepLeft, now, readerVars, histVars, constVars, loadVars>>

\* line 108: Unlock hands the read lock to every reader that waited in RLock
Unlock ==
  /\ bgpc = "unlock"
  /\ writer' = "free"
  /\ readerCount' = readerCount + Cardinality({r \in Readers : pc[r] = "rwait"})
  /\ pc' = [r \in Readers |-> IF pc[r] = "rwait" THEN "read" ELSE pc[r]]
  /\ bgpc' = "sleep"
  /\ UNCHANGED <<ctorVars, rollout, lastHealthy, percentage, err, exceeded, sleepLeft,
                 now, ret, histVars, constVars, loadVars>>

\* line 109: time.Sleep(delay) starts
Sleep ==
  /\ bgpc = "sleep"
  /\ sleepLeft' = Delay
  /\ bgpc' = "sleeping"
  /\ UNCHANGED <<ctorVars, rollout, mutexVars, lastHealthy, percentage, err, exceeded,
                 now, readerVars, histVars, constVars, loadVars>>

\* line 109 returns, line 94 loops
Wake ==
  /\ bgpc = "sleeping"
  /\ sleepLeft = 0
  /\ bgpc' = "fetch"
  /\ UNCHANGED <<ctorVars, rollout, mutexVars, lastHealthy, percentage, err, exceeded,
                 sleepLeft, now, readerVars, histVars, constVars, loadVars>>

\* the clock with a timer that drops the published value once the
\* threshold has passed, whatever the goroutine is doing
TickWithWatchdog ==
  /\ inst
  /\ IF now < MaxTime
     THEN now' = now + 1 /\ UNCHANGED lastHealthy
     ELSE now' = now /\ lastHealthy' = IF lastHealthy > 0 THEN lastHealthy - 1 ELSE 0
  /\ sleepLeft' = IF sleepLeft > 0 THEN sleepLeft - 1 ELSE 0
  /\ rollout' = IF bgpc # "none" /\ Since(lastHealthy) >= Unhealthy THEN Zero ELSE rollout
  /\ UNCHANGED <<ctorVars, mutexVars, bgpc, percentage, err, exceeded,
                 readerVars, histVars, constVars, loadVars>>

\* the clock advances one tick; at the end of the window the window slides
Tick ==
  /\ inst
  /\ IF now < MaxTime
     THEN now' = now + 1 /\ UNCHANGED lastHealthy
     ELSE now' = now /\ lastHealthy' = IF lastHealthy > 0 THEN lastHealthy - 1 ELSE 0
  /\ sleepLeft' = IF sleepLeft > 0 THEN sleepLeft - 1 ELSE 0
  /\ UNCHANGED <<ctorVars, rollout, mutexVars, bgpc, percentage, err, exceeded,
                 readerVars, histVars, constVars, loadVars>>

\* ------------------------------------------------------ DynamoDBRollout.Get
\* a caller that holds the instance calls Get
CallGet(r) ==
  /\ result = "ok"
  /\ pc[r] \in {"idle", "returned"}
  /\ pc' = [pc EXCEPT ![r] = "rlock"]
  /\ ret' = [ret EXCEPT ![r] = Zero]
  /\ UNCHANGED <<ctorVars, rollout, mutexVars, bgVars, now, histVars, constVars, loadVars>>

\* line 118 left out: Get reads without the read lock excluding the writer
RLockNoExclusion(r) ==
  /\ pc[r] = "rlock"
  /\ readerCount' = readerCount + 1 /\ pc' = [pc EXCEPT ![r] = "read"]
  /\ UNCHANGED <<ctorVars, rollout, writer, bgVars, now, ret, histVars, constVars, loadVars>>

\* line 118: RLock enters unless a writer holds or awaits the lock
RLock(r) ==
  /\ pc[r] = "rlock"
  /\ IF writer = "free"
     THEN readerCount' = readerCount + 1 /\ pc' = [pc EXCEPT ![r] = "read"]
     ELSE UNCHANGED readerCount /\ pc' = [pc EXCEPT ![r] = "rwait"]
  /\ UNCHANGED <<ctorVars, rollout, writer, bgVars, now, ret, histVars, constVars, loadVars>>

\* what a load of the rollout field can yield: the field, unless the store of
\* line 107 is in progress at the same time (a data race)
ReadOutcomes == IF bgpc = "write" THEN {rollout, percentage, Torn} ELSE {rollout}

\* line 120: the return value is evaluated
ReadRollout(r) ==
  /\ pc[r] = "read"
  /\ \E v \in ReadOutcomes : ret' = [ret EXCEPT ![r] = v]
  /\ pc' = [pc EXCEPT ![r] = "runlock"]
  /\ UNCHANGED <<ctorVars, rollout, mutexVars, bgVars, now, histVars, constVars, loadVars>>

\* line 119: the deferred RUnlock, then Get returns
RUnlock(r) ==
  /\ pc[r] = "runlock"
  /\ readerCount' = readerCount - 1
  /\ pc' = [pc EXCEPT ![r] = "returned"]
  /\ UNCHANGED <<ctorVars, rollout, writer, bgVars, now, ret, histVars, constVars, loadVars>>

\* ---------------------------------------------------------- ConstantRollout
ConstValues == {Num(-50), Zero, Num(35), One, Num(150), NaN}

\* lines 130-134
NewConstantRollout ==
  /\ \A c \in Callers : cpc[c] = "none"
  /\ \E v \in ConstValues : value' = v
  /\ cpc' = [c \in Callers |-> "idle"]
  /\ UNCHANGED <<ctorVars, rollout, mutexVars, bgVars, now, readerVars, histVars, loadVars, cret>>

CallConstantGet(c) ==
  /\ cpc[c] \in {"idle", "returned"}
  /\ cpc' = [cpc EXCEPT ![c] = "called"]
  /\ UNCHANGED <<ctorVars, rollout, mutexVars, bgVars, now, readerVars, histVars, loadVars,
                 value, cret>>

\* lines 138-140 clamping the value to [0.0,1.0]
ConstantGetClamped(c) ==
  /\ cpc[c] = "called"
  /\ cret' = [cret EXCEPT ![c] = IF FloatLess(value, Zero) THEN Zero
                                 ELSE IF FloatGreater(value, One) THEN One ELSE value]
  /\ cpc' = [cpc EXCEPT ![c] = "returned"]
  /\ UNCHANGED <<ctorVars, rollout, mutexVars, bgVars, now, readerVars, histVars, loadVars, value>>

\* lines 138-140
ConstantGet(c) ==
  /\ cpc[c] = "called"
  /\ cret' = [cret EXCEPT ![c] = value]
  /\ cpc' = [cpc EXCEPT ![c] = "returned"]
  /\ UNCHANGED <<ctorVars, rollout, mutexVars, bgVars, now, readerVars, histVars, loadVars, value>>

\* ---------------------------------------------------------- specifications
Next ==
  \/ Construct \/ Go \/ Return
  \/ BgStart \/ IssueGetItem \/ GetItemReturn \/ RecordRolloutUpdate \/ HandleResult
  \/ Lock \/ LockAcquire \/ Publish \/ Unlock \/ Sleep \/ Wake
  \/ Tick
  \/ \E r \in Readers : CallGet(r) \/ RLock(r) \/ ReadRollout(r) \/ RUnlock(r)

Spec == Init /\ [][Next]_vars

NextConstant ==
  \/ NewConstantRollout
  \/ \E c \in Callers : CallConstantGet(c) \/ ConstantGet(c)

InitConstant == db = "nil" /\ InitDynamo /\ value = Zero
                /\ cpc = [c \in Callers |-> "none"] /\ cret = [c \in Callers |-> Zero]
                /\ InitIdleLoad

SpecConstant == InitConstant /\ [][NextConstant]_vars

\* ------------------------------------------------- loadRollout on its own
\* number texts of up to MaxTextLen characters, and the texts of Texts
Alphabet == {"0", "1", "5", ".", "-", "+", "a"}
LoadTexts == UNION { [1..n -> Alphabet] : n \in 0..MaxTextLen } \cup Texts
LoadResponses ==
  { Response(TRUE, FALSE, FALSE, <<>>),
    Response(FALSE, FALSE, FALSE, <<>>),
    Response(FALSE, TRUE, FALSE, <<>>) }
  \cup { Response(FALSE, TRUE, TRUE, t) : t \in LoadTexts }

InitLoad ==
  /\ db = "nil" /\ InitDynamo
  /\ value = Zero /\ cpc = [c \in Callers |-> "none"] /\ cret = [c \in Callers |-> Zero]
  /\ loadIn \in LoadResponses
  /\ loaded = FALSE
  /\ loadOut = Result(Zero, "nil")

\* lines 70-91 applied to loadIn
CallLoadRollout ==
  /\ ~loaded
  /\ loadOut' = loadRollout(loadIn)
  /\ loaded' = TRUE
  /\ UNCHANGED <<ctorVars, rollout, mutexVars, bgVars, now, readerVars, histVars,
                 constVars, loadIn>>

NextLoad == CallLoadRollout

SpecLoad == InitLoad /\ [][NextLoad]_vars

TypeOK ==
  /\ db \in {"nil", "handle"}
  /\ ctorpc \in {"call", "go", "return", "returned"}
  /\ result \in {"none", "ok", "error"}
  /\ inst \in BOOLEAN
  /\ readerCount \in 0..NumReaders
  /\ writer \in {"free", "pending", "held"}
  /\ bgpc \in {"none", "start", "fetch", "waiting", "record", "check", "lock",
               "lockwait", "write", "unlock", "sleep", "sleeping"}
  /\ lastHealthy \in 0..MaxTime /\ now \in 0..MaxTime /\ lastHealthy <= now
  /\ err \in ErrKinds
  /\ sleepLeft \in 0..Delay
  /\ pc \in [Readers -> {"idle", "rlock", "rwait", "read", "runlock", "returned"}]
  /\ readerCount = Cardinality({r \in Readers : pc[r] \in {"read", "runlock"}})

\* Scheduling: every goroutine that can run a step of Get or of the lock
\* hand-off eventually runs it.  The remote lookup is NOT assumed to return,
\* and callers are not assumed to call Get.
FairSpec ==
  /\ Spec
  /\ \A r \in Readers : WF_vars(RLock(r)) /\ WF_vars(ReadRollout(r)) /\ WF_vars(RUnlock(r))
  /\ WF_vars(Lock) /\ WF_vars(LockAcquire) /\ WF_vars(Publish) /\ WF_vars(Unlock)

\* Scheduling for the loop: the goroutine runs whenever it can, time passes,
\* readers inside Get leave it, and every remote lookup returns.
LiveSpec ==
  /\ Spec
  /\ WF_vars(BgStart) /\ WF_vars(IssueGetItem) /\ WF_vars(GetItemReturn)
  /\ WF_vars(RecordRolloutUpdate) /\ WF_vars(HandleResult)
  /\ WF_vars(Lock) /\ WF_vars(LockAcquire) /\ WF_vars(Publish) /\ WF_vars(Unlock)
  /\ WF_vars(Sleep) /\ WF_vars(Wake) /\ WF_vars(Tick)
  /\ \A r \in Readers : WF_vars(RLock(r)) /\ WF_vars(ReadRollout(r)) /\ WF_vars(RUnlock(r))

\* ------------------------------------------------------------------ claims
PublishStep == bgpc = "write" /\ bgpc' = "unlock"
ReadStep(r) == pc[r] = "read" /\ pc'[r] = "runlock"

\* C1: an iteration whose fetch failed with the elapsed time within the
\* threshold leaves the published value as it was before the iteration.
C1_RetainedWithinThreshold ==
  [][(PublishStep /\ err # "nil" /\ ~exceeded) => rollout' = rollout]_vars

\* C2: the iteration that finds the threshold exceeded publishes 0.0, and the
\* published value is 0.0 in every later state until a successful iteration
\* publishes.
C2_DegradedIsZero == degraded => rollout = Zero

C2_Witness ==
  /\ bgpc = "unlock" /\ exceeded /\ degraded
  /\ prevRollout # Zero /\ rollout = Zero

\* C3: a successful iteration sets lastHealthy to the current time, carries
\* the fetched value unchanged to the publish step and publishes exactly it.
C3_SuccessPublishesFetched ==
  [][ /\ (bgpc = "check" /\ bgpc' = "lock" /\ err = "nil") => lastHealthy' = now
      /\ (bgpc \in {"record", "check", "lock", "lockwait"} /\ err = "nil")
            => percentage' = percentage
      /\ (PublishStep /\ err = "nil") => rollout' = percentage ]_vars

C3_Witness ==
  /\ bgpc = "unlock" /\ err = "nil"
  /\ wasDegraded /\ prevRollout = Zero /\ rollout = Num(35)

\* C4: once something was published, the published value is the value of the
\* most recent successful iteration, or it is 0.0 and the iteration that
\* published it found the threshold exceeded.
C4_LastGoodOrDegraded ==
  everPublished => (rollout = lastGood \/ (rollout = Zero /\ pubExceeded))

\* C5: the load in Get never overlaps the store of the publish step, so the
\* value Get returns is the whole published value at the instant of the load.
C5_GetReadsWholeValue ==
  [][\A r \in Readers :
       ReadStep(r) => (bgpc # "write" /\ writer # "held" /\ ret'[r] = rollout)]_vars

C5_Witness ==
  \E r \in Readers :
    /\ pc[r] = "rwait" /\ bgpc = "unlock"
    /\ prevRollout # rollout

\* C6: the goroutine holds the lock neither while the lookup is outstanding
\* nor while it sleeps; every Get that was called returns, even if a lookup
\* never returns, and what it returns is the published value.
C6_GetNeverWaitsOnLookup ==
  /\ [](bgpc \in {"fetch", "waiting", "sleep", "sleeping"} => writer = "free")
  /\ \A r \in Readers : (pc[r] = "rlock") ~> (pc[r] = "returned")
  /\ [][\A r \in Readers : ReadStep(r) => ret'[r] = rollout]_vars

C6_Witness ==
  \E r \in Readers :
    /\ pc[r] = "returned" /\ bgpc = "waiting"
    /\ everPublished /\ ret[r] = rollout /\ rollout # Zero

\* C7: with a nil db the constructor returns an error and no instance; no
\* goroutine starts, no lookup is issued, the monitor is not invoked, nothing
\* is published.
C7_NilHandleStartsNothing ==
  db = "nil" =>
    /\ ctorpc = "returned" => result = "error"
    /\ result # "ok" /\ ~inst /\ bgpc = "none"
    /\ ~everFetched /\ ~everRecorded /\ ~everPublished

C7_Witness == db = "nil" /\ ctorpc = "returned" /\ result = "error"

\* C8 as stated: the published value is 0.0 at the moment the constructor
\* returns, and a Get that completes before the first publish returns 0.0.
C8_ZeroAtReturn ==
  [][ /\ (ctorpc = "return" /\ ctorpc' = "returned") => rollout' = Zero
      /\ \A r \in Readers : (ReadStep(r) /\ ~everPublished) => ret'[r] = Zero ]_vars

\* C8 amended: the constructor's return waits for nothing; the published
\* value is 0.0 from the creation of the instance until the first publish
\* step (which may come before the constructor returns), and a Get that
\* completes before the first publish returns 0.0.
C8_ZeroUntilFirstPublish ==
  /\ ctorpc = "return" => ENABLED Return
  /\ (inst /\ ~everPublished) => rollout = Zero
  /\ ~everPublished => \A r \in Readers : pc[r] \in {"runlock", "returned"} => ret[r] = Zero

C8_Witness ==
  \E r \in Readers :
    /\ pc[r] = "returned" /\ ~everPublished
    /\ bgpc = "waiting" /\ result = "ok"

\* C9: the published value, and every value Get returned, lies in [0.0,1.0].
C9_PublishedInUnitRange ==
  /\ InUnitRange(rollout)
  /\ \A r \in Readers : pc[r] = "returned" => InUnitRange(ret[r])

\* C10: every Get of a ConstantRollout returns the value it was made with,
\* from every caller and after any earlier call, and changes nothing.
C10_ConstantGetReturnsValue ==
  \A c \in Callers : cpc[c] = "returned" => cret[c] = value

C10_Witness ==
  /\ value = Num(150)
  /\ \A c \in Callers : cpc[c] = "returned" /\ cret[c] = Num(150)

\* C11: RecordRolloutUpdate is invoked exactly once in every iteration, after
\* the lookup returned and before the publish step, and its argument is the
\* iteration's err: nil when the fetch succeeded, the error when it failed.
C11_MonitorOncePerIteration ==
  /\ bgpc \in {"waiting", "record"} => records = 0
  /\ bgpc \in {"check", "lock", "lockwait", "write", "unlock", "sleep", "sleeping"}
       => records = 1 /\ recordedErr = err

C11_Witness ==
  /\ bgpc = "write" /\ records = 1
  /\ recordedErr = "range" /\ everPublished /\ pubOk

\* C12: loadRollout fails exactly when the lookup failed, the attribute is
\* absent, it is no number, its text does not parse, or the parsed value is
\* below 0 or above 1; otherwise it returns the parsed value, 0 and 1
\* included; a failure returns 0 with the error, never a clamped success.
C12_Parsed == ParseFloat(loadIn.text)
C12_Failure ==
  \/ loadIn.err \/ ~loadIn.present \/ ~loadIn.isNumber
  \/ ~C12_Parsed.ok
  \/ (~C12_Parsed.f.nan /\ C12_Parsed.f.val < 0)
  \/ (~C12_Parsed.f.nan /\ C12_Parsed.f.val > Scale)

C12_FailureClassification ==
  loaded =>
    /\ (loadOut.err # "nil") <=> C12_Failure
    /\ C12_Failure => loadOut.percentage = Zero
    /\ ~C12_Failure => loadOut.percentage = C12_Parsed.f
    /\ (loadIn.isNumber /\ loadIn.text \in {<<"1">>, <<"1", ".", "0">>, <<"+", "1">>})
          => loadOut = Result(One, "nil")
    /\ (loadIn.isNumber /\ loadIn.text \in {<<"0">>, <<"0", ".", "0">>, <<"-", "0">>})
          => loadOut = Result(Zero, "nil")
    /\ (loadIn.isNumber /\ loadIn.text = <<".", "5">>) => loadOut = Result(Num(50), "nil")
    /\ (loadIn.isNumber /\ loadIn.text \in {<<"1", ".", "5">>, <<"1", ".", "1">>, <<"-", ".", "1">>})
          => loadOut = Result(Zero, "range")
    /\ (loadIn.isNumber /\ loadIn.text \in {<<>>, <<"a">>, <<".">>, <<"-">>, <<"1", "-">>})
          => loadOut = Result(Zero, "parse")

C12_Witness ==
  /\ loaded /\ loadIn.isNumber /\ loadIn.text = <<"1">>
  /\ loadOut = Result(One, "nil")

\* C13: no step of a failed iteration changes lastHealthy, not even the one
\* that drops the value to 0.0; lastHealthy changes only at line 93, at line
\* 104 of a successful iteration (and when the clock's window slides); and a
\* failed iteration that follows an unhealthy one without a success between
\* them is unhealthy again.
HandleStep == bgpc = "check" /\ bgpc' = "lock"
WindowSlides == now = MaxTime /\ bgpc' = bgpc /\ lastHealthy' = lastHealthy - 1

C13_OnlySuccessResetsTimer ==
  [][ /\ (bgpc \in {"record", "check", "lock", "lockwait", "write", "unlock", "sleep"}
            /\ bgpc' # bgpc /\ err # "nil") => lastHealthy' = lastHealthy
      /\ (lastHealthy' # lastHealthy)
            => (bgpc = "start" \/ (HandleStep /\ err = "nil") \/ WindowSlides)
      /\ (HandleStep /\ err # "nil" /\ degraded) => exceeded' ]_vars

C13_Witness ==
  /\ bgpc = "unlock" /\ err # "nil"
  /\ exceeded /\ wasDegraded /\ degraded /\ rollout = Zero

\* C14: whatever the fetch returned, the iteration goes on to publish and to
\* sleep for the same delay, and after the sleep the next lookup is issued:
\* the loop has no end.
C14_LoopNeverStops ==
  /\ [][(bgpc = "sleep" /\ bgpc' = "sleeping") => sleepLeft' = Delay]_vars
  /\ (bgpc = "start") ~> (bgpc = "waiting")
  /\ (bgpc = "record") ~> (bgpc = "sleeping")
  /\ (bgpc = "sleeping") ~> (bgpc = "waiting")

C14_Witness ==
  /\ bgpc = "waiting" /\ err # "nil"
  /\ exceeded /\ degraded /\ everPublished

\* C15: only the publish step changes the published value, and it does so
\* with the write lock held and no Get inside its read-locked section; two
\* Gets can be inside their read-locked sections together; no step of Get
\* changes the published value or lastHealthy.
InReadSection(r) == pc[r] \in {"read", "runlock"}

C15_WriterExclusive ==
  /\ [](writer = "held" => (readerCount = 0 /\ \A r \in Readers : ~InReadSection(r)))
  /\ [](bgpc \in {"write", "unlock"} <=> writer = "held")
  /\ [][rollout' # rollout => PublishStep]_vars
  /\ [][\A r \in Readers :
          (pc[r] \in {"idle", "rlock", "read", "runlock", "returned"} /\ pc'[r] # pc[r])
             => (rollout' = rollout /\ lastHealthy' = lastHealthy)]_vars

C15_Witness ==
  /\ \A r \in Readers : pc[r] = "read"
  /\ readerCount = NumReaders /\ bgpc = "lockwait" /\ writer = "pending"

\* C16: the threshold is looked at only in the step that handles a failed
\* fetch; while the lookup is outstanding nothing changes the published
\* value, however much time passes, so a non-zero value can be read more
\* than the threshold after the last success.
C16_NoDropWhileLookupOutstanding ==
  [][ /\ bgpc = "waiting" => rollout' = rollout
      /\ (exceeded' /\ ~exceeded) => (HandleStep /\ err # "nil") ]_vars

C16_Witness ==
  /\ bgpc = "waiting" /\ rollout = Num(35)
  /\ Since(lastHealthy) > Unhealthy
  /\ \E r \in Readers : pc[r] = "runlock" /\ ret[r] = Num(35)

\* C17: the iteration takes the branch of lines 100-101 exactly when its fetch
\* failed and the clock is more than the threshold past lastHealthy, which
\* starts as the time the goroutine started; at exactly the threshold the
\* branch is not taken and percentage is left as loadRollout returned it.
C17_UnhealthyIffStrictlyPast ==
  [][ /\ HandleStep => (exceeded' <=> (err # "nil" /\ now - lastHealthy > Unhealthy))
      /\ (HandleStep /\ exceeded') => percentage' = Zero
      /\ (HandleStep /\ err # "nil" /\ now - lastHealthy = Unhealthy)
            => (~exceeded' /\ percentage' = percentage)
      /\ (bgpc = "start" /\ bgpc' = "fetch") => lastHealthy' = now ]_vars

C17_Witness ==
  /\ bgpc = "lock" /\ err # "nil" /\ ~exceeded
  /\ Since(lastHealthy) = Unhealthy /\ ~everPublished

====
